---- MODULE Spec2Model ----
(***************************************************************************)
(* Model of the multi-column A4 text layout maker (src/app/page.tsx).      *)
(*                                                                         *)
(* Spec        one run of layoutText: tokenize, the token loop,            *)
(*             splitLongWord and the end-of-stream assembly, one step per  *)
(*             loop iteration.                                             *)
(* FairSpec    Spec with weak fairness of the run's steps (the run is a    *)
(*             synchronous computation that always takes its next step).   *)
(* RerunSpec   Spec followed by a second call of layoutText on the same    *)
(*             inputs in the same environment.                             *)
(* MetricsSpec the layout controls of HomePage and computeMetrics.         *)
(* ExportSpec  the two export buttons and the async export handlers, one   *)
(*             step per click and per settled await.                       *)
(*                                                                         *)
(* Strings are sequences of one-character strings.  Lengths of the flow    *)
(* engine are in tenths of a CSS pixel, so the 0.1px tolerance is 1.       *)
(* Lengths of the metrics resolver are exact rationals.                    *)
(***************************************************************************)
EXTENDS Integers, Sequences, FiniteSets, TLC

VARIABLES
  \* ---- inputs of one layoutText run
  text,               \* config.text
  columns,            \* config.columns
  columnWidths,       \* metrics.columnWidthsPx
  lineHeightPx,       \* metrics.lineHeightPx
  columnHeightPx,     \* metrics.columnHeightPx
  \* ---- position and closure state of the run
  pc,                 \* "start" | "loop" | "split" | "done"
  tokens,             \* tokenize(config.text)
  ti,                 \* index of the token the for-of loop handles next
  pages,
  currentPage,
  currentColumnLines,
  cursorY,
  currentLine,
  currentLineWidth,
  remaining,          \* splitLongWord's local
  result,             \* the value layoutText returns
  run,                \* [n, path, result]: which call of layoutText this is,
                      \* the early return or flow path the environment gives,
                      \* and what the previous call returned
  \* ---- state of HomePage's layout controls (columns is shared with the run)
  fontSize,           \* pt
  lineSpacing,
  margins,            \* [top, right, bottom, left], mm
  gap,                \* mm
  columnMode,         \* "equal" | "custom"
  columnWidthsMm,     \* requested custom widths, mm
  \* ---- exports
  isExporting,        \* "pdf" | "images" | "null"
  exports             \* the export handler calls suspended at an await

layoutVars == <<text, columns, columnWidths, lineHeightPx, columnHeightPx,
                pc, tokens, ti, pages, currentPage, currentColumnLines, cursorY,
                currentLine, currentLineWidth, remaining, result, run>>

controlVars == <<fontSize, lineSpacing, margins, gap, columnMode, columnWidthsMm>>

exportVars == <<isExporting, exports>>

vars == <<layoutVars, controlVars, exportVars>>

----------------------------------------------------------------------------
(* Bounds of the model *)

MaxTextLen == 4
MaxColumns == 2

(* Program constants *)

Tolerance == 1      \* 0.1px, in tenths of a pixel

NBSP == "nbsp"      \* U+00A0

Alphabet == {"a", "b", " ", "\n", "\r"}

Texts == UNION {[1..n -> Alphabet] : n \in 0..MaxTextLen}

WidthChoices == {0, 19, 39}
LineHeightChoices == {10}
ColumnHeightChoices == {8, 9, 19}

\* the "simple wrap" scenario: one column that holds two of the words and a
\* space, but not three
ScenarioText ==
  <<"a", "a", "a", "a", " ", "b", "b", "b", "b", " ", "c", "c", "c", "c">>
ScenarioWidths == {124, 168}
\* a word wider than a column, followed by a space and a word
SplitScenarioText == <<"b", "b", "a", " ", "a">>
ScenarioTexts == {ScenarioText, SplitScenarioText}

WidthLists == UNION {[1..n -> WidthChoices] : n \in 0..MaxColumns}

Max(a, b) == IF a >= b THEN a ELSE b

----------------------------------------------------------------------------
(* Text measurement: canvas measureText, as a sum of glyph advances.  The  *)
(* canvas replaces every ASCII whitespace character by a space before      *)
(* measuring.                                                              *)

IsSpace(c) == c \in {" ", "\n", "\r", NBSP}

CharWidth(c) ==
  CASE c = "a" -> 10
    [] c = "b" -> 20
    [] c = "c" -> 10
    [] OTHER -> 5

RECURSIVE measure(_)
measure(value) ==
  IF value = <<>> THEN 0 ELSE CharWidth(Head(value)) + measure(Tail(value))

----------------------------------------------------------------------------
(* tokenize *)

RECURSIVE Normalize(_)
Normalize(t) ==
  IF t = <<>> THEN <<>>
  ELSE IF Len(t) >= 2 /\ t[1] = "\r" /\ t[2] = "\n"
       THEN <<"\n">> \o Normalize(SubSeq(t, 3, Len(t)))
       ELSE <<t[1]>> \o Normalize(Tail(t))

\* Length of the maximal prefix of s whose characters all satisfy the class
\* (whitespace when sp, non-whitespace otherwise).
RECURSIVE RunLength(_, _)
RunLength(s, sp) ==
  IF s = <<>> \/ IsSpace(Head(s)) # sp THEN 0 ELSE 1 + RunLength(Tail(s), sp)

\* regex.exec of /(\n|\s+|[^\s]+)/g at the head of s: the length of match[0]
MatchLength(s) ==
  IF Head(s) = "\n" THEN 1
  ELSE RunLength(s, IsSpace(Head(s)))

RECURSIVE SpaceChunkTokens(_)
SpaceChunkTokens(chunk) ==
  IF chunk = <<>> THEN <<>>
  ELSE <<IF Head(chunk) = "\n"
         THEN [type |-> "newline", value |-> <<"\n">>]
         ELSE [type |-> "space", value |-> <<Head(chunk)>>]>>
       \o SpaceChunkTokens(Tail(chunk))

\* mutant: a whitespace run pushed as one space token
ChunkTokens_CollapseRun(chunk) ==
  IF chunk = <<"\n">> THEN <<[type |-> "newline", value |-> chunk]>>
  ELSE IF \A i \in 1..Len(chunk) : IsSpace(chunk[i])
       THEN <<[type |-> "space", value |-> <<Head(chunk)>>]>>
       ELSE <<[type |-> "word", value |-> chunk]>>

\* mutant: every character of a whitespace run becomes a space token
ChunkTokens_RunAsSpaces(chunk) ==
  IF chunk = <<"\n">> THEN <<[type |-> "newline", value |-> chunk]>>
  ELSE IF \A i \in 1..Len(chunk) : IsSpace(chunk[i])
       THEN [i \in 1..Len(chunk) |-> [type |-> "space", value |-> <<chunk[i]>>]]
       ELSE <<[type |-> "word", value |-> chunk]>>

ChunkTokens(chunk) ==
  IF chunk = <<"\n">> THEN <<[type |-> "newline", value |-> chunk]>>
  ELSE IF \A i \in 1..Len(chunk) : IsSpace(chunk[i])
       THEN SpaceChunkTokens(chunk)
       ELSE <<[type |-> "word", value |-> chunk]>>

RECURSIVE Scan(_)
Scan(s) ==
  IF s = <<>> THEN <<>>
  ELSE LET n == MatchLength(s)
       IN ChunkTokens(SubSeq(s, 1, n)) \o Scan(SubSeq(s, n + 1, Len(s)))

tokenize(t) == Scan(Normalize(t))

----------------------------------------------------------------------------
(* layoutText: closure state as a record, helpers as operators on it *)

columnCount == Max(columns, 1)

createEmptyPage(n) == [columns |-> [i \in 1..n |-> [lines |-> <<>>]]]

Cur == [pages |-> pages, currentPage |-> currentPage,
        currentColumnLines |-> currentColumnLines, cursorY |-> cursorY,
        currentLine |-> currentLine, currentLineWidth |-> currentLineWidth]

Set(s) ==
  /\ pages' = s.pages
  /\ currentPage' = s.currentPage
  /\ currentColumnLines' = s.currentColumnLines
  /\ cursorY' = s.cursorY
  /\ currentLine' = s.currentLine
  /\ currentLineWidth' = s.currentLineWidth

\* The width the code uses for the column with 0-based index idx.
WidthAt(idx) ==
  IF idx < Len(columnWidths) THEN columnWidths[idx + 1]
  ELSE columnWidths[Len(columnWidths)]

getColumnWidth(s) == WidthAt(Len(s.currentPage.columns))

\* mutant: the page is closed one column late
finishColumn_LateClose(s) ==
  LET cols == Append(s.currentPage.columns, [lines |-> s.currentColumnLines])
  IN IF Len(cols) > columnCount
     THEN [s EXCEPT !.pages = Append(@, [columns |-> cols]),
                    !.currentPage = [columns |-> <<>>],
                    !.currentColumnLines = <<>>,
                    !.cursorY = 0]
     ELSE [s EXCEPT !.currentPage = [columns |-> cols],
                    !.currentColumnLines = <<>>,
                    !.cursorY = 0]

finishColumn(s) ==
  LET cols == Append(s.currentPage.columns, [lines |-> s.currentColumnLines])
  IN IF Len(cols) = columnCount
     THEN [s EXCEPT !.pages = Append(@, [columns |-> cols]),
                    !.currentPage = [columns |-> <<>>],
                    !.currentColumnLines = <<>>,
                    !.cursorY = 0]
     ELSE [s EXCEPT !.currentPage = [columns |-> cols],
                    !.currentColumnLines = <<>>,
                    !.cursorY = 0]

HasRoom(y) == y + lineHeightPx <= columnHeightPx + Tolerance

\* mutant: a column is closed as soon as it holds a line
ensureColumnSpaceForNextLine_OneLine(s) ==
  IF s.cursorY = 0 THEN s ELSE finishColumn(s)

ensureColumnSpaceForNextLine(s) ==
  IF HasRoom(s.cursorY) THEN s ELSE finishColumn(s)

RECURSIVE TrimEnd(_)
TrimEnd(rawLine) ==
  IF rawLine # <<>> /\ IsSpace(rawLine[Len(rawLine)])
  THEN TrimEnd(SubSeq(rawLine, 1, Len(rawLine) - 1))
  ELSE rawLine

\* mutant: an empty line is stored as the empty string
StoredLine_NoPlaceholder(rawLine) == TrimEnd(rawLine)

StoredLine(rawLine) ==
  LET trimmed == TrimEnd(rawLine)
  IN IF trimmed = <<>> THEN <<NBSP>> ELSE trimmed

\* mutant: the line is pushed without checking the column's room
commitLine_NoEnsure(s, rawLine) ==
  [s EXCEPT !.currentColumnLines = Append(@, StoredLine(rawLine)),
            !.cursorY = @ + lineHeightPx,
            !.currentLine = <<>>,
            !.currentLineWidth = 0]

\* mutant: a line that finds the column full is dropped
commitLine_DropOnOverflow(s, rawLine) ==
  IF HasRoom(s.cursorY)
  THEN [s EXCEPT !.currentColumnLines = Append(@, StoredLine(rawLine)),
                 !.cursorY = @ + lineHeightPx,
                 !.currentLine = <<>>,
                 !.currentLineWidth = 0]
  ELSE [s EXCEPT !.currentLine = <<>>, !.currentLineWidth = 0]

commitLine(s, rawLine) ==
  LET s1 == ensureColumnSpaceForNextLine(s)
  IN [s1 EXCEPT !.currentColumnLines = Append(@, StoredLine(rawLine)),
                !.cursorY = @ + lineHeightPx,
                !.currentLine = <<>>,
                !.currentLineWidth = 0]

\* The binary search of splitLongWord: the value of best when the loop ends.
RECURSIVE BinarySearch(_, _, _, _, _)
BinarySearch(rem, columnWidth, low, high, best) ==
  IF low > high THEN best
  ELSE LET mid == (low + high) \div 2
       IN IF measure(SubSeq(rem, 1, mid)) <= columnWidth + Tolerance
          THEN BinarySearch(rem, columnWidth, mid + 1, high, mid)
          ELSE BinarySearch(rem, columnWidth, low, mid - 1, best)

\* mutant: no forced character when nothing fits
ForcedBest_NoForce(best) == best

ForcedBest(best) == IF best = 0 THEN 1 ELSE best


----------------------------------------------------------------------------
(* Exact rational arithmetic for the metrics resolver: [n, d] with d > 0,  *)
(* in lowest terms.  Sums and comparisons go through the least common      *)
(* denominator to keep the integers small.                                 *)

Abs(x) == IF x < 0 THEN -x ELSE x

RECURSIVE GCD(_, _)
GCD(a, b) == IF b = 0 THEN a ELSE GCD(b, a % b)

Rat(n, d) == LET g == GCD(Abs(n), d) IN [n |-> n \div g, d |-> d \div g]

Num(i) == [n |-> i, d |-> 1]

LCD(a, b) == (a.d \div GCD(a.d, b.d)) * b.d

RatAdd(a, b) ==
  LET L == LCD(a, b) IN Rat(a.n * (L \div a.d) + b.n * (L \div b.d), L)

RatSub(a, b) == RatAdd(a, [n |-> -b.n, d |-> b.d])

RatMul(a, b) ==
  LET g1 == GCD(Abs(a.n), b.d)
      g2 == GCD(Abs(b.n), a.d)
  IN Rat((a.n \div g1) * (b.n \div g2), (a.d \div g2) * (b.d \div g1))

\* a / b for b > 0
RatDiv(a, b) == RatMul(a, [n |-> b.d, d |-> b.n])

RatLE(a, b) ==
  LET L == LCD(a, b) IN a.n * (L \div a.d) <= b.n * (L \div b.d)

RatMax(a, b) == IF RatLE(b, a) THEN a ELSE b
RatMin(a, b) == IF RatLE(a, b) THEN a ELSE b

RECURSIVE RatSum(_)
RatSum(rs) == IF rs = <<>> THEN Num(0) ELSE RatAdd(Head(rs), RatSum(Tail(rs)))

\* Number(x.toFixed(2)) for x >= 0: the nearest hundredth, halves upwards
ToFixed2(x) == Rat((200 * x.n + x.d) \div (2 * x.d), 100)

----------------------------------------------------------------------------
(* computeMetrics *)

PAGE_WIDTH_MM == 210
PAGE_HEIGHT_MM == 297
MIN_COLUMNS == 1
MAX_COLUMNS == 12

mmToPx(mm) == RatDiv(RatMul(mm, Num(96)), Rat(254, 10))
ptToPx(pt) == RatDiv(RatMul(pt, Num(96)), Num(72))

\* lines 307-310
AvailableWidthPx(cols, gapMm, m) ==
  LET contentWidthPx ==
        RatMax(RatSub(RatSub(mmToPx(Num(PAGE_WIDTH_MM)), mmToPx(m.left)),
                      mmToPx(m.right)), Num(1))
      totalGapPx == RatMul(mmToPx(gapMm), Num(Max(cols - 1, 0)))
  IN RatMax(RatSub(contentWidthPx, totalGapPx), Num(1))

\* lines 311-314 (and the availableWidthMm memo of HomePage, lines 378-385)
AvailableWidthMm(cols, gapMm, m) ==
  RatMax(RatSub(RatSub(RatSub(Num(PAGE_WIDTH_MM), m.left), m.right),
                RatMul(gapMm, Num(Max(cols - 1, 0)))), Num(1))

\* columnWidthsMm.slice(0, columnCount).map((value) => Math.max(value, 0))
Requested(cols, widthsMm) ==
  LET n == IF Len(widthsMm) < Max(cols, 1) THEN Len(widthsMm) ELSE Max(cols, 1)
  IN [i \in 1..n |-> RatMax(widthsMm[i], Num(0))]

\* lines 316-335: [widths, scale]
ResolveWidths(cols, mode, widthsMm, gapMm, m) ==
  LET count == Max(cols, 1)
      equal == RatDiv(AvailableWidthPx(cols, gapMm, m), Num(count))
      requested == Requested(cols, widthsMm)
      sum == RatSum(requested)
  IN IF mode = "equal" \/ RatLE(sum, Num(0))
     THEN [widths |-> [i \in 1..count |-> equal], scale |-> Num(1)]
     ELSE LET scale == RatDiv(AvailableWidthMm(cols, gapMm, m), sum)
          IN [widths |-> [i \in 1..Len(requested) |->
                            mmToPx(RatMul(requested[i], scale))],
              scale |-> scale]

\* lines 337-342
RECURSIVE Offsets(_, _, _, _)
Offsets(widths, gapPx, i, offset) ==
  IF i > Len(widths) THEN <<>>
  ELSE <<offset>> \o
       Offsets(widths, gapPx, i + 1,
               RatAdd(offset, RatAdd(widths[i],
                                     IF i < Len(widths) THEN gapPx ELSE Num(0))))

computeMetrics(cols, mode, widthsMm, gapMm, m, fontSizePt, spacing) ==
  LET resolved == ResolveWidths(cols, mode, widthsMm, gapMm, m)
      marginsPx == [top |-> mmToPx(m.top), right |-> mmToPx(m.right),
                    bottom |-> mmToPx(m.bottom), left |-> mmToPx(m.left)]
      pageHeightPx == mmToPx(Num(PAGE_HEIGHT_MM))
      fontSizePx == ptToPx(fontSizePt)
  IN [pageWidthPx |-> mmToPx(Num(PAGE_WIDTH_MM)),
      pageHeightPx |-> pageHeightPx,
      marginsPx |-> marginsPx,
      columnWidthsPx |-> resolved.widths,
      columnOffsetsPx |-> Offsets(resolved.widths, mmToPx(gapMm), 1, Num(0)),
      columnHeightPx |->
        RatMax(RatSub(RatSub(pageHeightPx, marginsPx.top), marginsPx.bottom),
               Num(16)),
      gapPx |-> mmToPx(gapMm),
      fontSizePx |-> fontSizePx,
      lineHeightPx |-> RatMul(fontSizePx, spacing),
      customScale |-> resolved.scale]

\* the metrics memo of HomePage, lines 402-406
metrics ==
  computeMetrics(columns, columnMode, columnWidthsMm, gap, margins, fontSize,
                 lineSpacing)

\* useState initial values, lines 364-375
InitialControls ==
  /\ fontSize = Num(12)
  /\ lineSpacing = Rat(14, 10)
  /\ margins = [top |-> Num(10), right |-> Num(10), bottom |-> Num(10),
                left |-> Num(10)]
  /\ gap = Num(2)
  /\ columnMode = "equal"
  /\ columnWidthsMm =
       [i \in 1..8 |-> ToFixed2(RatDiv(Num(PAGE_WIDTH_MM - 10 - 10 - 2 * (8 - 1)),
                                       Num(8)))]
  /\ isExporting = "null"
  /\ exports = <<>>

----------------------------------------------------------------------------
(* Init: a fresh call of layoutText on some config and metrics *)

Init ==
  /\ \/ /\ text \in Texts
        /\ columns \in 1..MaxColumns
        /\ columnWidths \in {w \in WidthLists : Len(w) <= columns}
     \/ /\ text \in ScenarioTexts
        /\ columns = 1
        /\ columnWidths \in {<<w>> : w \in ScenarioWidths \cup WidthChoices}
  /\ lineHeightPx \in LineHeightChoices
  /\ columnHeightPx \in ColumnHeightChoices
  /\ pc = "start"
  /\ tokens = <<>>
  /\ ti = 1
  /\ pages = <<>>
  /\ currentPage = [columns |-> <<>>]
  /\ currentColumnLines = <<>>
  /\ cursorY = 0
  /\ currentLine = <<>>
  /\ currentLineWidth = 0
  /\ remaining = <<>>
  /\ result = <<>>
  /\ run = [n |-> 1, path |-> "none", result |-> <<>>]
  /\ InitialControls

closureVars == <<pages, currentPage, currentColumnLines, cursorY, currentLine,
                 currentLineWidth>>
inputVars == <<text, columns, columnWidths, lineHeightPx, columnHeightPx>>
\* a run of layoutText changes neither its inputs nor the controls
configVars == <<inputVars, controlVars, exportVars>>

\* lines 121-123: no window (server-side render)
StartNoWindow ==
  /\ pc = "start"
  /\ run.path \in {"none", "nowindow"}
  /\ run' = [run EXCEPT !.path = "nowindow"]
  /\ result' = <<createEmptyPage(columns)>>
  /\ pc' = "done"
  /\ UNCHANGED <<configVars, closureVars, tokens, ti, remaining>>

\* lines 125-135: no column widths, or the canvas gives no 2d context
StartNoContext ==
  /\ pc = "start"
  /\ run.path \in {"none", "nocontext"}
  /\ run' = [run EXCEPT !.path = "nocontext"]
  /\ result' = <<createEmptyPage(columnCount)>>
  /\ pc' = "done"
  /\ UNCHANGED <<configVars, closureVars, tokens, ti, remaining>>

\* lines 125-148: widths and context present; tokenize
StartLayout ==
  /\ pc = "start"
  /\ run.path \in {"none", "layout"}
  /\ run' = [run EXCEPT !.path = "layout"]
  /\ Len(columnWidths) # 0
  /\ tokens' = tokenize(text)
  /\ pc' = "loop"
  /\ UNCHANGED <<configVars, closureVars, ti, remaining, result>>

\* mutant: a newline on an empty buffer commits nothing
NewlineToken_Collapse ==
  /\ pc = "loop" /\ ti <= Len(tokens) /\ tokens[ti].type = "newline"
  /\ Set(IF currentLine # <<>> THEN commitLine(Cur, currentLine) ELSE Cur)
  /\ ti' = ti + 1
  /\ UNCHANGED <<configVars, run, pc, tokens, remaining, result>>

\* lines 223-230
NewlineToken ==
  /\ pc = "loop" /\ ti <= Len(tokens) /\ tokens[ti].type = "newline"
  /\ Set(IF currentLine # <<>> THEN commitLine(Cur, currentLine)
                               ELSE commitLine(Cur, <<>>))
  /\ ti' = ti + 1
  /\ UNCHANGED <<configVars, run, pc, tokens, remaining, result>>

\* mutant: a space that does not fit starts the next line
SpaceToken_CarryOver ==
  /\ pc = "loop" /\ ti <= Len(tokens) /\ tokens[ti].type = "space"
  /\ IF currentLine = <<>>
     THEN UNCHANGED closureVars
     ELSE LET columnWidth == getColumnWidth(Cur)
              width == measure(tokens[ti].value)
          IN IF currentLineWidth + width <= columnWidth + Tolerance
             THEN Set([Cur EXCEPT !.currentLine = @ \o tokens[ti].value,
                                  !.currentLineWidth = @ + width])
             ELSE Set([commitLine(Cur, currentLine)
                         EXCEPT !.currentLine = tokens[ti].value,
                                !.currentLineWidth = width])
  /\ ti' = ti + 1
  /\ UNCHANGED <<configVars, run, pc, tokens, remaining, result>>

\* lines 232-245
SpaceToken ==
  /\ pc = "loop" /\ ti <= Len(tokens) /\ tokens[ti].type = "space"
  /\ IF currentLine = <<>>
     THEN UNCHANGED closureVars
     ELSE LET columnWidth == getColumnWidth(Cur)
              width == measure(tokens[ti].value)
          IN IF currentLineWidth + width <= columnWidth + Tolerance
             THEN Set([Cur EXCEPT !.currentLine = @ \o tokens[ti].value,
                                  !.currentLineWidth = @ + width])
             ELSE Set(commitLine(Cur, currentLine))
  /\ ti' = ti + 1
  /\ UNCHANGED <<configVars, run, pc, tokens, remaining, result>>

\* mutant: a word always starts a new line
WordToken_AlwaysBreak ==
  /\ pc = "loop" /\ ti <= Len(tokens) /\ tokens[ti].type = "word"
  /\ LET value == tokens[ti].value
         columnWidth == getColumnWidth(Cur)
         width == measure(value)
         s1 == IF currentLineWidth > 0
               THEN commitLine(Cur, currentLine) ELSE Cur
     IN IF width <= columnWidth + Tolerance
        THEN LET s2 == IF s1.currentLine = <<>>
                       THEN ensureColumnSpaceForNextLine(s1) ELSE s1
             IN /\ Set([s2 EXCEPT !.currentLine = @ \o value,
                                  !.currentLineWidth = @ + width])
                /\ ti' = ti + 1
                /\ UNCHANGED <<pc, remaining>>
        ELSE /\ Set(IF s1.currentLine # <<>>
                    THEN commitLine(s1, s1.currentLine) ELSE s1)
             /\ remaining' = value
             /\ pc' = "split"
             /\ UNCHANGED ti
  /\ UNCHANGED <<configVars, run, tokens, result>>

\* lines 247-265; splitLongWord's loop continues in SplitLongWord
WordToken ==
  /\ pc = "loop" /\ ti <= Len(tokens) /\ tokens[ti].type = "word"
  /\ LET value == tokens[ti].value
         columnWidth == getColumnWidth(Cur)
         width == measure(value)
         s1 == IF currentLineWidth > 0
                  /\ currentLineWidth + width > columnWidth + Tolerance
               THEN commitLine(Cur, currentLine) ELSE Cur
     IN IF width <= columnWidth + Tolerance
        THEN LET s2 == IF s1.currentLine = <<>>
                       THEN ensureColumnSpaceForNextLine(s1) ELSE s1
             IN /\ Set([s2 EXCEPT !.currentLine = @ \o value,
                                  !.currentLineWidth = @ + width])
                /\ ti' = ti + 1
                /\ UNCHANGED <<pc, remaining>>
        ELSE /\ Set(IF s1.currentLine # <<>>
                    THEN commitLine(s1, s1.currentLine) ELSE s1)
             /\ remaining' = value
             /\ pc' = "split"
             /\ UNCHANGED ti
  /\ UNCHANGED <<configVars, run, tokens, result>>

\* mutant: the last part of the word is committed like the others
SplitLongWord_CommitAll ==
  /\ pc = "split"
  /\ LET columnWidth == getColumnWidth(Cur)
         s1 == ensureColumnSpaceForNextLine(Cur)
         best == ForcedBest(BinarySearch(remaining, columnWidth, 1, Len(remaining), 0))
         segment == SubSeq(remaining, 1, best)
     IN IF best = Len(remaining)
        THEN /\ Set(commitLine(s1, segment))
             /\ remaining' = <<>>
             /\ pc' = "loop"
             /\ ti' = ti + 1
        ELSE /\ Set(commitLine(s1, segment))
             /\ remaining' = SubSeq(remaining, best + 1, Len(remaining))
             /\ UNCHANGED <<pc, ti>>
  /\ UNCHANGED <<configVars, run, tokens, result>>

\* lines 186-219: one iteration of splitLongWord's while loop
SplitLongWord ==
  /\ pc = "split"
  /\ LET columnWidth == getColumnWidth(Cur)
         s1 == ensureColumnSpaceForNextLine(Cur)
         best == ForcedBest(BinarySearch(remaining, columnWidth, 1, Len(remaining), 0))
         segment == SubSeq(remaining, 1, best)
     IN IF best = Len(remaining)
        THEN /\ Set([s1 EXCEPT !.currentLine = segment,
                               !.currentLineWidth = measure(segment)])
             /\ remaining' = <<>>
             /\ pc' = "loop"
             /\ ti' = ti + 1
        ELSE /\ Set(commitLine(s1, segment))
             /\ remaining' = SubSeq(remaining, best + 1, Len(remaining))
             /\ UNCHANGED <<pc, ti>>
  /\ UNCHANGED <<configVars, run, tokens, result>>

\* lines 272-279: flush the last column and pad the page
RECURSIVE PadColumns(_, _)
PadColumns(cols, n) ==
  IF Len(cols) < n THEN PadColumns(Append(cols, [lines |-> <<>>]), n) ELSE cols

FlushLastPage(s) ==
  LET cols == PadColumns(Append(s.currentPage.columns,
                                [lines |-> s.currentColumnLines]), columnCount)
  IN [s EXCEPT !.currentPage = [columns |-> cols],
               !.currentColumnLines = <<>>,
               !.pages = Append(@, [columns |-> cols])]

\* mutant: the pages are returned as they are
Returned_NoFallback(ps) == ps

\* lines 281-285
Returned(ps) == IF Len(ps) = 0 THEN <<createEmptyPage(columnCount)>> ELSE ps

\* lines 268-285
EndOfStream ==
  /\ pc = "loop" /\ ti > Len(tokens)
  /\ LET s1 == IF currentLine # <<>> THEN commitLine(Cur, currentLine) ELSE Cur
         s2 == IF Len(s1.currentColumnLines) > 0 \/ Len(s1.currentPage.columns) > 0
               THEN FlushLastPage(s1) ELSE s1
     IN /\ Set(s2)
        /\ result' = Returned(s2.pages)
  /\ pc' = "done"
  /\ UNCHANGED <<configVars, run, tokens, ti, remaining>>

Next ==
  \/ StartNoWindow
  \/ StartNoContext
  \/ StartLayout
  \/ NewlineToken
  \/ SpaceToken
  \/ WordToken
  \/ SplitLongWord
  \/ EndOfStream

Spec == Init /\ [][Next]_vars

FairSpec == Spec /\ WF_vars(Next)

\* mutant: the closure variables live outside layoutText and are not set anew
Rerun_KeepState ==
  /\ pc = "done" /\ run.n = 1
  /\ run' = [run EXCEPT !.n = 2, !.result = result]
  /\ pc' = "start"
  /\ tokens' = <<>>
  /\ ti' = 1
  /\ remaining' = <<>>
  /\ result' = <<>>
  /\ UNCHANGED <<configVars, closureVars>>

\* lines 408-422 and 138-146: layoutText is called once more with the same
\* config and metrics; the call declares its closure variables anew
Rerun ==
  /\ pc = "done" /\ run.n = 1
  /\ run' = [run EXCEPT !.n = 2, !.result = result]
  /\ pc' = "start"
  /\ tokens' = <<>>
  /\ ti' = 1
  /\ pages' = <<>>
  /\ currentPage' = [columns |-> <<>>]
  /\ currentColumnLines' = <<>>
  /\ cursorY' = 0
  /\ currentLine' = <<>>
  /\ currentLineWidth' = 0
  /\ remaining' = <<>>
  /\ result' = <<>>
  /\ UNCHANGED configVars

RerunNext ==
  \/ StartNoWindow
  \/ StartNoContext
  \/ StartLayout
  \/ NewlineToken
  \/ SpaceToken
  \/ WordToken
  \/ SplitLongWord
  \/ EndOfStream
  \/ Rerun

RerunSpec == Init /\ [][RerunNext]_vars

----------------------------------------------------------------------------
(* HomePage's layout controls.  Number(event.target.value) is a rational   *)
(* or NaN.  The effect that keeps columnWidthsMm as long as columns runs   *)
(* after the render that follows a change, before the next event.          *)

MaxEditedColumn == 2    \* custom-width inputs that receive events

NaN == [n |-> 0, d |-> 0]
IsNaN(value) == value.d = 0

ColumnInputs == {Num(0), Num(2), NaN}
GapInputs == {Num(-1), Num(40), NaN}
FontSizeInputs == {Num(200), NaN}
LineSpacingInputs == {Num(0), NaN}
MarginInputs == {Num(150), NaN}
ColumnWidthInputs == {Num(0), Num(30), NaN}

\* the layout run's own variables are not part of the controls' state machine
runVars == <<text, columnWidths, lineHeightPx, columnHeightPx, pc, tokens, ti,
             pages, currentPage, currentColumnLines, cursorY, currentLine,
             currentLineWidth, remaining, result, run, isExporting, exports>>

MetricsInit ==
  /\ text = <<>>
  /\ columns = 8
  /\ columnWidths = <<>>
  /\ lineHeightPx = 10
  /\ columnHeightPx = 19
  /\ pc = "start"
  /\ tokens = <<>>
  /\ ti = 1
  /\ pages = <<>>
  /\ currentPage = [columns |-> <<>>]
  /\ currentColumnLines = <<>>
  /\ cursorY = 0
  /\ currentLine = <<>>
  /\ currentLineWidth = 0
  /\ remaining = <<>>
  /\ result = <<>>
  /\ run = [n |-> 1, path |-> "none", result |-> <<>>]
  /\ InitialControls

EffectPending == Len(columnWidthsMm) # columns

\* lines 519-524
SetColumns ==
  /\ ~EffectPending
  /\ \E value \in ColumnInputs :
       columns' = IF IsNaN(value) THEN columns
                  ELSE RatMin(RatMax(value, Num(MIN_COLUMNS)), Num(MAX_COLUMNS)).n
  /\ UNCHANGED <<runVars, controlVars>>

\* lines 534-539
SetGap ==
  /\ ~EffectPending
  /\ \E value \in GapInputs :
       gap' = IF IsNaN(value) THEN gap ELSE RatMax(value, Num(0))
  /\ UNCHANGED <<runVars, columns, fontSize, lineSpacing, margins, columnMode,
                 columnWidthsMm>>

\* lines 559-564
SetFontSize ==
  /\ ~EffectPending
  /\ \E value \in FontSizeInputs :
       fontSize' = IF IsNaN(value) THEN fontSize
                   ELSE RatMin(RatMax(value, Num(6)), Num(96))
  /\ UNCHANGED <<runVars, columns, lineSpacing, margins, gap, columnMode,
                 columnWidthsMm>>

\* lines 575-580
SetLineSpacing ==
  /\ ~EffectPending
  /\ \E value \in LineSpacingInputs :
       lineSpacing' = IF IsNaN(value) THEN lineSpacing
                      ELSE RatMin(RatMax(value, Num(1)), Num(4))
  /\ UNCHANGED <<runVars, columns, fontSize, margins, gap, columnMode,
                 columnWidthsMm>>

\* lines 597-602
SetMargin ==
  /\ ~EffectPending
  /\ \E side \in {"top", "right", "bottom", "left"} : \E value \in MarginInputs :
       margins' = IF IsNaN(value) THEN margins
                  ELSE [margins EXCEPT ![side] = RatMax(value, Num(0))]
  /\ UNCHANGED <<runVars, columns, fontSize, lineSpacing, gap, columnMode,
                 columnWidthsMm>>

\* lines 615 and 622
SetColumnMode ==
  /\ ~EffectPending
  /\ \E mode \in {"equal", "custom"} : columnMode' = mode
  /\ UNCHANGED <<runVars, columns, fontSize, lineSpacing, margins, gap,
                 columnWidthsMm>>

\* lines 644-652: the inputs exist in custom mode only
SetColumnWidth ==
  /\ ~EffectPending
  /\ columnMode = "custom"
  /\ \E index \in 1..Len(columnWidthsMm) : \E next \in ColumnWidthInputs :
       /\ index <= MaxEditedColumn
       /\ columnWidthsMm' =
            IF IsNaN(next) THEN columnWidthsMm
            ELSE [columnWidthsMm EXCEPT ![index] = RatMax(next, Rat(5, 10))]
  /\ UNCHANGED <<runVars, columns, fontSize, lineSpacing, margins, gap, columnMode>>

\* lines 387-400
SyncColumnWidths ==
  /\ EffectPending
  /\ columnWidthsMm' =
       IF Len(columnWidthsMm) < columns
       THEN LET fallback ==
                  RatMax(RatDiv(AvailableWidthMm(columns, gap, margins),
                                Num(columns)), Num(1))
            IN [i \in 1..columns |->
                  IF i <= Len(columnWidthsMm) THEN columnWidthsMm[i]
                  ELSE ToFixed2(fallback)]
       ELSE SubSeq(columnWidthsMm, 1, columns)
  /\ UNCHANGED <<runVars, columns, fontSize, lineSpacing, margins, gap, columnMode>>

MetricsNext ==
  \/ SetColumns
  \/ SetGap
  \/ SetFontSize
  \/ SetLineSpacing
  \/ SetMargin
  \/ SetColumnMode
  \/ SetColumnWidth
  \/ SyncColumnWidths

MetricsSpec == MetricsInit /\ [][MetricsNext]_vars

----------------------------------------------------------------------------
(* The export buttons.  A click runs the handler up to its first await;    *)
(* each settled await resumes one suspended handler call.  The pages memo  *)
(* always holds at least one page, so the guard of lines 432 and 463 never *)
(* returns; validPages holds the page nodes that are mounted.              *)

MaxExports == 3        \* handler calls suspended at the same time
MaxExportPages == 2    \* page nodes an export renders

RemoveAt(seq, k) == SubSeq(seq, 1, k - 1) \o SubSeq(seq, k + 1, Len(seq))

\* lines 431-445 and 667-674: the PDF button, enabled unless isExporting is
\* 'pdf'; without a page node the handler runs to its finally at once
ClickExportPdf ==
  /\ isExporting # "pdf"
  /\ Len(exports) < MaxExports
  /\ \E n \in 0..MaxExportPages :
       IF n = 0
       THEN isExporting' = "null" /\ UNCHANGED exports
       ELSE /\ isExporting' = "pdf"
            /\ exports' = Append(exports, [kind |-> "pdf", i |-> 0, n |-> n,
                                           await |-> "toPng"])
  /\ UNCHANGED <<layoutVars, controlVars>>

\* lines 462-476 and 675-682: the images button, enabled unless isExporting
\* is 'images'; without a page node the handler awaits zip.generateAsync
ClickExportImages ==
  /\ isExporting # "images"
  /\ Len(exports) < MaxExports
  /\ \E n \in 0..MaxExportPages :
       /\ isExporting' = "images"
       /\ exports' = Append(exports,
                            [kind |-> "images", i |-> 0, n |-> n,
                             await |-> IF n = 0 THEN "zip" ELSE "toPng"])
  /\ UNCHANGED <<layoutVars, controlVars>>

\* lines 445-459 and 476-485: toPng resolves; the loop goes on, or the PDF is
\* saved and finally runs, or the images handler awaits the zip
ToPngResolved ==
  /\ \E k \in 1..Len(exports) :
       LET e == exports[k]
       IN /\ e.await = "toPng"
          /\ IF e.i + 1 < e.n
             THEN /\ exports' = [exports EXCEPT ![k].i = e.i + 1]
                  /\ UNCHANGED isExporting
             ELSE IF e.kind = "pdf"
                  THEN /\ exports' = RemoveAt(exports, k)
                       /\ isExporting' = "null"
                  ELSE /\ exports' = [exports EXCEPT ![k].i = e.i + 1,
                                                     ![k].await = "zip"]
                       /\ UNCHANGED isExporting
  /\ UNCHANGED <<layoutVars, controlVars>>

\* lines 484-489: zip.generateAsync resolves; saveAs, then finally
ZipResolved ==
  /\ \E k \in 1..Len(exports) :
       /\ exports[k].await = "zip"
       /\ exports' = RemoveAt(exports, k)
       /\ isExporting' = "null"
  /\ UNCHANGED <<layoutVars, controlVars>>

\* lines 457-459 and 487-489: an awaited promise rejects; finally runs
AwaitRejected ==
  /\ \E k \in 1..Len(exports) :
       /\ exports' = RemoveAt(exports, k)
       /\ isExporting' = "null"
  /\ UNCHANGED <<layoutVars, controlVars>>

ExportNext ==
  \/ ClickExportPdf
  \/ ClickExportImages
  \/ ToPngResolved
  \/ ZipResolved
  \/ AwaitRejected

ExportSpec == MetricsInit /\ [][ExportNext]_vars

----------------------------------------------------------------------------
(* The page structure a state holds: the returned pages once the run is    *)
(* done, otherwise the closed pages followed by the page under             *)
(* construction with the column being filled as its last column.           *)

InProgressPage ==
  [columns |-> Append(currentPage.columns, [lines |-> currentColumnLines])]

Placed == IF pc = "done" THEN result ELSE Append(pages, InProgressPage)

RECURSIVE Flatten(_)
Flatten(ss) == IF ss = <<>> THEN <<>> ELSE Head(ss) \o Flatten(Tail(ss))

ColumnsOf(pgs) == Flatten([p \in 1..Len(pgs) |-> pgs[p].columns])
LinesOf(pgs) ==
  LET cols == ColumnsOf(pgs) IN Flatten([c \in 1..Len(cols) |-> cols[c].lines])

\* Every single character (and the blank-line placeholder) fits in every column.
SingleCharsFit ==
  /\ Len(columnWidths) = columnCount
  /\ \A i \in 1..Len(columnWidths) : \A c \in Alphabet \cup {NBSP} :
       CharWidth(c) <= columnWidths[i] + Tolerance

EqualWidths == \A i, j \in 1..Len(columnWidths) : columnWidths[i] = columnWidths[j]

LinesFit(pgs) ==
  \A p \in 1..Len(pgs) : \A c \in 1..Len(pgs[p].columns) :
    \A l \in 1..Len(pgs[p].columns[c].lines) :
      measure(pgs[p].columns[c].lines[l]) <= WidthAt(c - 1) + Tolerance

\* C1: when every single character fits in every column, every line placed in
\* a column (at any point of the run and in the output) measures at most the
\* width of that column, by its index on its page, plus the tolerance.
C1_NoLineOverflow == SingleCharsFit => LinesFit(Placed)

\* C2: every column of every page, at any point of the run and in the output,
\* holds lines whose total height is at most the column height plus the
\* tolerance, whatever the line height and column height.
C2_NoColumnOverflow ==
  \A p \in 1..Len(Placed) : \A c \in 1..Len(Placed[p].columns) :
    Len(Placed[p].columns[c].lines) * lineHeightPx <= columnHeightPx + Tolerance

\* C3: every closed page and every returned page has exactly columnCount
\* columns, and the page under construction never reaches columnCount.
C3_ColumnPadding ==
  /\ \A p \in 1..Len(pages) : Len(pages[p].columns) = columnCount
  /\ pc # "done" => Len(currentPage.columns) < columnCount
  /\ pc = "done" => \A p \in 1..Len(result) : Len(result[p].columns) = columnCount

C3_Witness ==
  /\ pc = "done"
  /\ columns = 2
  /\ Len(columnWidths) = 2
  /\ HasRoom(0)
  /\ Len(result) >= 2
  /\ result[Len(result)].columns[2].lines = <<>>
  /\ result[Len(result)].columns[1].lines # <<>>

OnlyInlineWhitespace(t) == \A i \in 1..Len(t) : t[i] \in {" ", "\r"}

\* C4: the run returns at least one page; for a text that is empty or holds
\* only non-newline whitespace, or when there are no column widths, it returns
\* exactly one page of columnCount empty columns.
C4_NonEmptyOutput ==
  pc = "done" =>
    /\ Len(result) >= 1
    /\ (OnlyInlineWhitespace(text) \/ Len(columnWidths) = 0)
         => result = <<createEmptyPage(columnCount)>>

C4_Witness ==
  /\ pc = "done"
  /\ Len(text) >= 2
  /\ OnlyInlineWhitespace(text)
  /\ Len(tokens) = Len(text)
  /\ ti > Len(tokens)
  /\ result = <<createEmptyPage(columnCount)>>

\* The line a step has just placed: the last line in page, column, line order.
LastLine(pgs) == LinesOf(pgs)[Len(LinesOf(pgs))]

\* C5: a word wider than the column is split by splitLongWord into at least
\* two non-empty segments that concatenate to the word, each committed segment
\* being one new line, and each segment measuring at most the width of the
\* column it is placed in plus the tolerance (stated for widths in which every
\* single character fits, so that no one-character segment is forced).
C5_ForcedSplit ==
  [][(pc = "split" /\ SingleCharsFit) =>
       LET seg == IF pc' = "split" THEN LastLine(Placed') ELSE currentLine'
       IN /\ seg # <<>>
          /\ seg \o remaining' = remaining
          /\ remaining = tokens[ti].value => remaining' # <<>>
          /\ pc' = "split" => LinesOf(Placed') = Append(LinesOf(Placed), seg)
          /\ (pc' = "split" \/ HasRoom(0)) =>
               measure(seg) <= WidthAt(Len(currentPage'.columns)) + Tolerance
    ]_vars

\* C6: every run ends, returning at least one page, and every iteration of
\* splitLongWord shortens the remaining word.
C6_Terminates ==
  /\ <>(pc = "done")
  /\ [](pc = "done" => Len(result) >= 1)
  /\ [][pc = "split" => Len(remaining') < Len(remaining)]_vars

C6_Witness ==
  /\ pc = "done"
  /\ \A i \in 1..Len(columnWidths) : columnWidths[i] = 0
  /\ ~HasRoom(0)
  /\ Len(text) >= 3
  /\ \A i \in 1..Len(text) : ~IsSpace(text[i])
  /\ Len(result) >= 3

\* The input with every "\r\n" replaced by "\n": the characters of t except
\* each "\r" that a "\n" follows.
RECURSIVE ReplaceCRLF(_, _)
ReplaceCRLF(t, i) ==
  IF i > Len(t) THEN <<>>
  ELSE (IF t[i] = "\r" /\ i < Len(t) /\ t[i + 1] = "\n" THEN <<>> ELSE <<t[i]>>)
       \o ReplaceCRLF(t, i + 1)

TokenValues(toks) == Flatten([i \in 1..Len(toks) |-> toks[i].value])

\* C7: the values of the tokens tokenize returns, concatenated in order, are
\* the input with every "\r\n" replaced by "\n".
C7_TokenRoundTrip ==
  pc \in {"loop", "split"} => TokenValues(tokens) = ReplaceCRLF(text, 1)

C7_Witness ==
  /\ pc = "loop"
  /\ Len(tokens) = 3
  /\ \E i \in 1..(Len(text) - 1) : text[i] = "\r" /\ text[i + 1] = "\n"
  /\ \E i \in 1..Len(tokens) : tokens[i].type = "word"
  /\ \E i \in 1..Len(tokens) : tokens[i].type = "space"

\* k lines is the most a column holds
MaxLinesFit(k) ==
  /\ k >= 1
  /\ k * lineHeightPx <= columnHeightPx + Tolerance
  /\ (k + 1) * lineHeightPx > columnHeightPx + Tolerance

\* C8: when the column being filled holds the most lines that fit, a step that
\* commits a line closes that column unchanged and places the line as the only
\* line of the next column: the next column of the same page if the column was
\* not the page's last, otherwise the first column of the next page, the page
\* being closed with exactly columnCount columns.
C8_ColumnOverflowTransition ==
  [][(/\ pc \in {"loop", "split"}
      /\ MaxLinesFit(Len(currentColumnLines))
      /\ Len(LinesOf(Placed')) > Len(LinesOf(Placed))) =>
       LET P == Len(pages) + 1
           c == Len(currentPage.columns) + 1
           nP == IF c < columnCount THEN P ELSE P + 1
           nc == IF c < columnCount THEN c + 1 ELSE 1
       IN /\ Len(Placed') >= nP
          /\ Len(Placed'[P].columns) >= c
          /\ Placed'[P].columns[c].lines = currentColumnLines
          /\ c = columnCount => Len(Placed'[P].columns) = columnCount
          /\ Len(Placed'[nP].columns) >= nc
          /\ Placed'[nP].columns[nc].lines = <<LastLine(Placed')>>
          /\ LinesOf(Placed') = Append(LinesOf(Placed), LastLine(Placed'))
    ]_vars

C8_Witness ==
  /\ pc = "loop"
  /\ columns = 2
  /\ MaxLinesFit(1)
  /\ Len(pages) = 1
  /\ \A c \in 1..2 : Len(pages[1].columns[c].lines) = 1
  /\ currentPage.columns = <<>>
  /\ Len(currentColumnLines) = 1

Newlines(n) == [i \in 1..n |-> "\n"]
Placeholders(n) == [i \in 1..n |-> <<NBSP>>]

\* C9: every Newline token commits exactly one line, the buffer (without its
\* trailing whitespace) if it is not empty and a placeholder otherwise; a word
\* followed by n newlines gives the word and n-1 placeholders, and "a\n\nb"
\* gives "a", placeholder, "b".
C9_BlankLinePreservation ==
  /\ [][(pc = "loop" /\ ti <= Len(tokens) /\ tokens[ti].type = "newline") =>
          LinesOf(Placed') =
            Append(LinesOf(Placed),
                   IF currentLine # <<>> THEN TrimEnd(currentLine) ELSE <<NBSP>>)
       ]_vars
  /\ [](pc = "done" /\ tokens # <<>> =>
          /\ text = <<"a", "\n", "\n", "b">> =>
               LinesOf(result) = << <<"a">>, <<NBSP>>, <<"b">> >>
          /\ \A n \in 1..(MaxTextLen - 1) :
               text = <<"b">> \o Newlines(n) =>
                 LinesOf(result) = << <<"b">> >> \o Placeholders(n - 1))

C9_Witness ==
  /\ pc = "done"
  /\ text = <<"a", "\n", "\n", "b">>
  /\ LinesOf(result) = << <<"a">>, <<NBSP>>, <<"b">> >>
  /\ Len(result) = 2

\* C10: in custom mode with requested widths of sum S > 0, every resolved
\* width is requested[i] * (A / S) and the resolved widths sum to A, the
\* available width in pixels that equal mode divides.
C10_CustomWidthScaling ==
  LET A == AvailableWidthPx(columns, gap, margins)
      requested == Requested(columns, columnWidthsMm)
      S == RatSum(requested)
      widths == metrics.columnWidthsPx
  IN (columnMode = "custom" /\ ~RatLE(S, Num(0))) =>
       /\ Len(widths) = Len(requested)
       /\ \A i \in 1..Len(widths) : widths[i] = RatMul(requested[i], RatDiv(A, S))
       /\ RatSum(widths) = A

\* C11: whatever input events have happened, the controls handed to
\* computeMetrics and layoutText satisfy: column count in 1..12, font size in
\* 6..96 pt, line spacing in 1..4, every margin in 0..40 mm, gap >= 0 mm and
\* every custom column width >= 0.5 mm.
C11_InputRanges ==
  /\ columns \in MIN_COLUMNS..MAX_COLUMNS
  /\ RatLE(Num(6), fontSize) /\ RatLE(fontSize, Num(96))
  /\ RatLE(Num(1), lineSpacing) /\ RatLE(lineSpacing, Num(4))
  /\ \A side \in {"top", "right", "bottom", "left"} :
       RatLE(Num(0), margins[side]) /\ RatLE(margins[side], Num(40))
  /\ RatLE(Num(0), gap)
  /\ \A i \in 1..Len(columnWidthsMm) : RatLE(Rat(5, 10), columnWidthsMm[i])

WordStep == pc = "loop" /\ ti <= Len(tokens) /\ tokens[ti].type = "word"

\* C12: a Word token commits the buffer (one new line, before the word) exactly
\* when the buffer is not empty and buffer width + word width exceeds the
\* column width plus the tolerance; a word that fits is appended to the
\* current line; and "aaaa bbbb cccc" in one column that holds two of the
\* words and a space but not three gives the lines "aaaa bbbb" and "cccc".
C12_GreedyWrapping ==
  /\ [][WordStep =>
          LET value == tokens[ti].value
              width == measure(value)
              columnWidth == getColumnWidth(Cur)
              breaks == /\ currentLine # <<>>
                        /\ currentLineWidth + width > columnWidth + Tolerance
          IN /\ breaks => LinesOf(Placed') =
                            Append(LinesOf(Placed), TrimEnd(currentLine))
             /\ ~breaks => LinesOf(Placed') = LinesOf(Placed)
             /\ (~breaks /\ width <= columnWidth + Tolerance)
                  => currentLine' = currentLine \o value
             /\ (breaks /\ width <= columnWidth + Tolerance)
                  => currentLine' = value
       ]_vars
  /\ []((/\ pc = "done" /\ tokens # <<>> /\ text = ScenarioText
         /\ columns = 1
         /\ measure(SubSeq(ScenarioText, 1, 9)) <= columnWidths[1] + Tolerance
         /\ measure(ScenarioText) > columnWidths[1] + Tolerance) =>
          LinesOf(result) = << SubSeq(ScenarioText, 1, 9),
                               SubSeq(ScenarioText, 11, 14) >>)

C12_Witness ==
  /\ pc = "done"
  /\ text = ScenarioText
  /\ columnWidths[1] \in ScenarioWidths
  /\ Len(tokens) = 5
  /\ LinesOf(result) = << SubSeq(ScenarioText, 1, 9), SubSeq(ScenarioText, 11, 14) >>

\* line is raw without its trailing whitespace, nothing else changed
IsTrimOf(line, raw) ==
  /\ Len(line) <= Len(raw)
  /\ line = SubSeq(raw, 1, Len(line))
  /\ \A i \in (Len(line) + 1)..Len(raw) : IsSpace(raw[i])
  /\ line # <<>> => ~IsSpace(line[Len(line)])

\* C13: no line placed in a column is the empty string; a line committed from
\* an empty buffer is the single placeholder U+00A0, and every other line is
\* the committed buffer (the line buffer, or the segment splitLongWord cut)
\* without its trailing whitespace and otherwise unchanged.
C13_PlaceholderLines ==
  /\ [](\A l \in 1..Len(LinesOf(Placed)) : LinesOf(Placed)[l] # <<>>)
  /\ [][LinesOf(Placed') # LinesOf(Placed) =>
          LET raw == IF pc = "split"
                     THEN SubSeq(remaining, 1, Len(remaining) - Len(remaining'))
                     ELSE currentLine
              line == LastLine(Placed')
          IN /\ LinesOf(Placed') = Append(LinesOf(Placed), line)
             /\ raw = <<>> => line = <<NBSP>>
             /\ raw # <<>> => line # <<>> /\ IsTrimOf(line, raw)
       ]_vars

C13_Witness ==
  /\ pc = "done"
  /\ text = <<"a", " ", "\n", "\n">>
  /\ LinesOf(result) = << <<"a">>, <<NBSP>> >>

C15_ResolvedColumnCount ==
  /\ Len(metrics.columnWidthsPx) = Max(columns, 1)
  /\ Len(metrics.columnOffsetsPx) = Max(columns, 1)
  /\ columnMode = "custom" =>
       \A i \in 1..Len(metrics.columnWidthsPx) :
         i > Len(columnWidthsMm) => metrics.columnWidthsPx[i] = Num(0)

SpaceStep == pc = "loop" /\ ti <= Len(tokens) /\ tokens[ti].type = "space"

\* C16: a Space token on an empty buffer changes nothing; a Space that fits
\* (buffer width + space width <= column width + tolerance) is appended; a
\* Space that does not fit commits the buffer and is discarded, leaving an
\* empty buffer; and neither the buffer nor any placed line other than the
\* placeholder starts with whitespace.
C16_SpaceHandling ==
  /\ [](/\ currentLine # <<>> => ~IsSpace(currentLine[1])
        /\ \A l \in 1..Len(LinesOf(Placed)) :
             LET line == LinesOf(Placed)[l]
             IN line = <<NBSP>> \/ (line # <<>> /\ ~IsSpace(line[1])))
  /\ [][SpaceStep =>
          LET value == tokens[ti].value
              fits == currentLineWidth + measure(value)
                        <= getColumnWidth(Cur) + Tolerance
          IN /\ currentLine = <<>> =>
                  /\ currentLine' = <<>>
                  /\ Placed' = Placed
             /\ (currentLine # <<>> /\ fits) =>
                  /\ currentLine' = currentLine \o value
                  /\ currentLineWidth' = currentLineWidth + measure(value)
                  /\ Placed' = Placed
             /\ (currentLine # <<>> /\ ~fits) =>
                  /\ LinesOf(Placed') =
                       Append(LinesOf(Placed), TrimEnd(currentLine))
                  /\ currentLine' = <<>>
                  /\ currentLineWidth' = 0
       ]_vars

C16_Witness ==
  /\ pc = "done"
  /\ text = <<"b", " ", "a">>
  /\ columns = 1
  /\ columnWidths = <<19>>
  /\ LinesOf(result) = << <<"b">>, <<"a">> >>

\* The buffer is the open remainder of the split word tokens[j], followed by
\* the Space tokens (and, after them, the tokens) handled since.
OpenRemainder ==
  /\ pc = "loop"
  /\ currentLine # <<>>
  /\ \E j \in 1..(ti - 1) : \E k \in 1..(Len(tokens[j].value) - 1) :
       /\ tokens[j].type = "word"
       /\ \A i \in (j + 1)..(ti - 1) : tokens[i].type # "newline"
       /\ currentLine =
            SubSeq(tokens[j].value, k + 1, Len(tokens[j].value))
              \o TokenValues(SubSeq(tokens, j + 1, ti - 1))

\* C17: when the whole remaining part of a split word fits, splitLongWord
\* commits nothing and leaves it as the line buffer with its measured width;
\* a following Space or Word token that fits is appended to that same line;
\* and the line is committed only by a later token or at end of stream.
C17_SplitRemainderOpen ==
  /\ [][pc = "split" =>
          /\ measure(remaining) <= getColumnWidth(Cur) + Tolerance => pc' = "loop"
          /\ pc' = "loop" =>
               /\ LinesOf(Placed') = LinesOf(Placed)
               /\ currentLine' = remaining
               /\ currentLineWidth' = measure(remaining)
               /\ ti' = ti + 1
       ]_vars
  /\ [][(OpenRemainder /\ ti <= Len(tokens) /\ tokens[ti].type # "newline"
         /\ currentLineWidth + measure(tokens[ti].value)
              <= getColumnWidth(Cur) + Tolerance) =>
          /\ currentLine' = currentLine \o tokens[ti].value
          /\ Placed' = Placed
       ]_vars
  /\ [][(OpenRemainder /\ ti > Len(tokens)) =>
          LinesOf(Placed') = Append(LinesOf(Placed), TrimEnd(currentLine))
       ]_vars

C17_Witness ==
  /\ text = SplitScenarioText
  /\ columnWidths = <<39>>
  /\ pc = "loop"
  /\ ti > Len(tokens)
  /\ OpenRemainder
  /\ LinesOf(Placed) = << <<"b", "b">> >>
  /\ currentLine = <<"a", " ", "a">>

\* C18: in the token stream tokenize returns, every Space token holds exactly
\* one whitespace character that is not a newline, every Newline token holds
\* exactly "\n", every Word token is a non-empty run without whitespace, and
\* no two Word tokens are adjacent.
C18_TokenTyping ==
  pc \in {"loop", "split"} =>
    /\ \A i \in 1..Len(tokens) :
         LET value == tokens[i].value
         IN CASE tokens[i].type = "space" ->
                   Len(value) = 1 /\ IsSpace(value[1]) /\ value[1] # "\n"
              [] tokens[i].type = "newline" -> value = <<"\n">>
              [] tokens[i].type = "word" ->
                   value # <<>> /\ \A k \in 1..Len(value) : ~IsSpace(value[k])
              [] OTHER -> FALSE
    /\ \A i \in 1..(Len(tokens) - 1) :
         ~(tokens[i].type = "word" /\ tokens[i + 1].type = "word")

C18_Witness ==
  /\ pc = "loop"
  /\ text = <<"a", " ", "\n", "\r">>
  /\ tokens = << [type |-> "word", value |-> <<"a">>],
                 [type |-> "space", value |-> <<" ">>],
                 [type |-> "newline", value |-> <<"\n">>],
                 [type |-> "space", value |-> <<"\r">>] >>

\* the characters of a string that are not whitespace, in order
RECURSIVE Strip(_)
Strip(value) ==
  IF value = <<>> THEN <<>>
  ELSE (IF IsSpace(Head(value)) THEN <<>> ELSE <<Head(value)>>)
       \o Strip(Tail(value))

\* what the run has not placed or buffered yet
Pending ==
  IF pc = "split"
  THEN remaining \o TokenValues(SubSeq(tokens, ti + 1, Len(tokens)))
  ELSE TokenValues(SubSeq(tokens, ti, Len(tokens)))

\* C19: when the flow engine runs (a window, a canvas context and at least
\* one column width), the placed lines read in page, column, line order,
\* followed by the buffer and the text not yet handled, hold without their
\* whitespace exactly the input without its whitespace; so the returned lines
\* do.
C19_ContentPreservation ==
  (run.path = "layout" /\ pc # "start") =>
    /\ Strip(Flatten(LinesOf(Placed)) \o currentLine \o Pending) = Strip(text)
    /\ pc = "done" => Strip(Flatten(LinesOf(result))) = Strip(text)

C19_Witness ==
  /\ run.path = "layout"
  /\ pc = "done"
  /\ text = <<"a", "b", "b", "a">>
  /\ columns = 2
  /\ Len(result) >= 2
  /\ Len(LinesOf(result)) >= 3

\* C20: when a line fits in an empty column, a step of the token loop or of
\* splitLongWord closes at most one column, and the column it closes holds the
\* most lines that fit; in the returned pages, read page by page, every column before a
\* non-empty column holds the most lines that fit, empty columns are on the
\* last page only, and no page is entirely empty unless it is the only page.
C20_FillBeforeAdvance ==
  /\ [][(/\ HasRoom(0)
         /\ pc \in {"loop", "split"}
         /\ ti <= Len(tokens)
         /\ currentPage' # currentPage) =>
          LET from == IF pages' # pages THEN pages'[Len(pages')] ELSE currentPage'
              closed == from.columns[Len(from.columns)]
          IN /\ MaxLinesFit(Len(closed.lines))
             /\ Len(ColumnsOf(Placed')) = Len(ColumnsOf(Placed)) + 1
       ]_vars
  /\ [](pc = "done" /\ HasRoom(0) =>
          LET cols == ColumnsOf(result)
          IN /\ \A i, j \in 1..Len(cols) :
                  (i < j /\ cols[j].lines # <<>>) =>
                    MaxLinesFit(Len(cols[i].lines))
             /\ \A i \in 1..Len(cols) :
                  cols[i].lines = <<>> => i > (Len(result) - 1) * columnCount
             /\ \A p \in 1..Len(result) :
                  (\A c \in 1..Len(result[p].columns) :
                     result[p].columns[c].lines = <<>>) => Len(result) = 1)

C20_Witness ==
  /\ pc = "done"
  /\ MaxLinesFit(2)
  /\ columns = 2
  /\ Len(result) = 1
  /\ Len(result[1].columns[1].lines) = 2
  /\ Len(result[1].columns[2].lines) = 1

Running(kind) == {k \in 1..Len(exports) : exports[k].kind = kind}

\* C21: whatever the order of clicks and settled awaits, while an export of a
\* kind is running isExporting is that kind (its button is disabled), at most
\* one export of each kind is running, and isExporting is null only when no
\* export is running.
C21_ExportReentrancy ==
  /\ \A kind \in {"pdf", "images"} :
       /\ Running(kind) # {} => isExporting = kind
       /\ Cardinality(Running(kind)) <= 1
  /\ isExporting = "null" => exports = <<>>

====
